---- MODULE Spec2Model ----
(***************************************************************************)
(* SmartAlloc: the allocation conflict engine of the server, the derived    *)
(* statuses, and the admin-only routes.                                    *)
(*                                                                         *)
(* The store (MongoDB collections users, resources, allocations), the      *)
(* clock, and one action per HTTP request, translated from the controllers *)
(* (allocation, resource, dashboard, user), models/Allocation.js,          *)
(* models/User.js, middleware/authMiddleware.js and the routers.           *)
(*                                                                         *)
(* Spec            : every request runs to completion before the next.     *)
(* SpecConcCreate  : createAllocation requests interleave at their awaits. *)
(* SpecConcApprove : updateAllocationStatus requests interleave likewise.  *)
(* SpecViews       : bookings, decisions and the GET routes while the      *)
(*                   clock runs past the end of the bookings.              *)
(* SpecAdmin       : every kind of caller on the admin-only routes, the    *)
(*                   resource route, the booking route and login.          *)
(* SpecConcAdmin   : two admins' user-management requests interleave at    *)
(*                   their awaits.                                         *)
(* SpecClient      : the web client (AuthProvider, login page) against the *)
(*                   server.                                               *)
(***************************************************************************)
EXTENDS Integers, FiniteSets, Sequences, TLC

VARIABLES
    users,        \* collection users: id -> [role, status, email, password]
    resources,    \* collection resources: the ids that exist
    allocations,  \* collection allocations: a set of documents
    nextId,       \* the next fresh allocation _id
    now,          \* the clock read by new Date()
    response,     \* the response of the request handled last
    inflight,     \* SpecConc: the requests suspended at an await
    client        \* the web client: localStorage and the state of AuthProvider

vars == <<users, resources, allocations, nextId, now, response, inflight, client>>

-----------------------------------------------------------------------------
(* Bounds *)

\* Instants are 0..MaxTime.
MaxTime == 3


-----------------------------------------------------------------------------
(* Inputs *)

Instants == 0..MaxTime

\* The readings of the clock while requests arrive.
ClockInstants == {0, 1}

\* A request field that is absent or falsy (undefined, null, "").
Missing == -1

\* A startTime/endTime that new Date() cannot parse: an Invalid Date (NaN).
InvalidDate == -2

\* r1 and r2 are seeded; r3 is a well-formed id of no resource; "bad" is not
\* an ObjectId; "" is a missing resourceId.
SeededResources == {"r1", "r2"}

\* The seeded accounts, and the tokens a request can carry: a valid token of
\* each account, a token of a deleted account, none.
UserIds == {"alice", "frank", "blocked"}
Callers == UserIds \cup {"ghost", "notoken"}

\* The _ids the store hands out, in this order: two allocations are created.
AllocIds == {1, 2}

StatusInputs == {"approved", "rejected", "pending"}

NoResponse == [op |-> "none", code |-> 0, message |-> "", id |-> 0, conflicts |-> {}]

Reply(op, code, message, id, conflicts) ==
    [op |-> op, code |-> code, message |-> message, id |-> id, conflicts |-> conflicts]

-----------------------------------------------------------------------------
(* models/Allocation.js *)

\* A conflict query that only asks whether the new start falls inside an
\* existing allocation.
FindConflicts_StartInside(store, rid, newStart, newEnd) ==
    {a \in store : /\ a.resourceId = rid
                   /\ a.approvalStatus = "approved"
                   /\ a.startTime < newStart
                   /\ a.endTime > newStart}

\* A conflict query without the approvalStatus filter.
FindConflicts_AnyStatus(store, rid, newStart, newEnd) ==
    {a \in store : /\ a.resourceId = rid
                   /\ a.startTime < newEnd
                   /\ a.endTime > newStart}

\* Allocation.find({resourceId, approvalStatus: 'approved',
\*                  startTime: {$lt: newEnd}, endTime: {$gt: newStart}})
FindConflicts(store, rid, newStart, newEnd) ==
    {a \in store : /\ a.resourceId = rid
                   /\ a.approvalStatus = "approved"
                   /\ a.startTime < newEnd
                   /\ a.endTime > newStart}

\* allocationSchema.pre('save'): the save fails when endTime <= startTime.
PreSaveOk(doc) == ~(doc.endTime <= doc.startTime)

\* Schema validation run by save(): assignedTo is required, at most 100 long.
SchemaOk(assignedTo) == assignedTo \notin {"", "LONG"}

-----------------------------------------------------------------------------
(* models/User.js *)

\* userSchema.pre('save'): the stored password is the bcrypt hash.
Hash(password) == <<"bcrypt", password>>

\* A user document: role, status, email (lower case), hashed password.
User(role, status, email, password) ==
    [role |-> role, status |-> status, email |-> email, password |-> Hash(password)]

-----------------------------------------------------------------------------
(* middleware/authMiddleware.js *)

\* protect: 0 when next() is called, else the status of the one response.
Protect(caller) ==
    IF caller = "notoken" THEN 401
    ELSE IF caller \notin DOMAIN users THEN 401
    ELSE IF users[caller].status = "blocked" THEN 403
    ELSE 0

\* adminOnly, run after protect called next().
AdminOnly(caller) ==
    IF users[caller].role = "Super User" THEN 0 ELSE 403

-----------------------------------------------------------------------------
(* controllers/allocationController.js: createAllocation *)

\* JavaScript's Date comparisons: any comparison with an Invalid Date is false.
DateLE(a, b) == a # InvalidDate /\ b # InvalidDate /\ a <= b
DateLT(a, b) == a # InvalidDate /\ b # InvalidDate /\ a < b

\* STEP 1: required fields.
FieldsPresent(req) ==
    /\ req.resourceId # ""
    /\ req.assignedTo # ""
    /\ req.startTime # Missing
    /\ req.endTime # Missing

\* STEPS 1-4 without STEP 2, the time range check.
Validate_NoRange(req, currentTime) ==
    IF ~FieldsPresent(req)
    THEN Reply("createAllocation", 400, "required", 0, {})
    ELSE IF DateLT(req.startTime, currentTime)
    THEN Reply("createAllocation", 400, "Start time cannot be in the past", 0, {})
    ELSE IF req.resourceId = "bad"
    THEN Reply("createAllocation", 400, "Invalid resource ID format", 0, {})
    ELSE IF req.resourceId \notin resources
    THEN Reply("createAllocation", 404, "Resource not found", 0, {})
    ELSE Reply("createAllocation", 0, "", 0, {})

\* STEPS 1-4 with STEP 3 (start in the past) run before STEP 2 (time range).
Validate_PastFirst(req, currentTime) ==
    IF ~FieldsPresent(req)
    THEN Reply("createAllocation", 400, "required", 0, {})
    ELSE IF DateLT(req.startTime, currentTime)
    THEN Reply("createAllocation", 400, "Start time cannot be in the past", 0, {})
    ELSE IF DateLE(req.endTime, req.startTime)
    THEN Reply("createAllocation", 400, "End time must be after start time", 0, {})
    ELSE IF req.resourceId = "bad"
    THEN Reply("createAllocation", 400, "Invalid resource ID format", 0, {})
    ELSE IF req.resourceId \notin resources
    THEN Reply("createAllocation", 404, "Resource not found", 0, {})
    ELSE Reply("createAllocation", 0, "", 0, {})

\* STEPS 1-4, before the conflict query: the error response, or code 0.
Validate(req, currentTime) ==
    IF ~FieldsPresent(req)
    THEN Reply("createAllocation", 400, "required", 0, {})
    ELSE IF DateLE(req.endTime, req.startTime)
    THEN Reply("createAllocation", 400, "End time must be after start time", 0, {})
    ELSE IF DateLT(req.startTime, currentTime)
    THEN Reply("createAllocation", 400, "Start time cannot be in the past", 0, {})
    ELSE IF req.resourceId = "bad"
    THEN Reply("createAllocation", 400, "Invalid resource ID format", 0, {})
    ELSE IF req.resourceId \notin resources
    THEN Reply("createAllocation", 404, "Resource not found", 0, {})
    ELSE Reply("createAllocation", 0, "", 0, {})

\* STEP 5: the conflict query. A query on an Invalid Date throws a CastError
\* of kind date, which the catch block answers with 500.
Conflicts(store, req) ==
    FindConflicts(store, req.resourceId, req.startTime, req.endTime)

\* Every new allocation waits for approval.
DecideApprovalStatus_Pending(caller) == "pending"

\* Every new allocation is approved at once, whoever asks.
DecideApprovalStatus_Approved(caller) == "approved"

\* STEP 6: decide the approval status from the role of req.user.
DecideApprovalStatus(caller) ==
    IF users[caller].role = "Super User" THEN "approved" ELSE "pending"

NewAllocation(req, caller, id) ==
    [id |-> id,
     resourceId |-> req.resourceId,
     startTime |-> req.startTime,
     endTime |-> req.endTime,
     approvalStatus |-> DecideApprovalStatus(caller)]

\* The requests a client sends: every well-formed one for a seeded resource,
\* and the malformed ones (a resource that does not exist, a missing or
\* unparseable field, a bad id, an over-long name).
Intervals == {t \in Instants \X Instants : t[1] < t[2]}
BackwardTimes == {<<0, 0>>, <<1, 0>>, <<MaxTime, 1>>}

WellFormed ==
    {[resourceId |-> r, assignedTo |-> "Ann", startTime |-> t[1], endTime |-> t[2]] :
        r \in SeededResources, t \in Intervals \cup BackwardTimes}

EdgeTimes == {<<0, 1>>, <<1, 0>>, <<1, 2>>}
BadTimes == {<<Missing, 1>>, <<1, Missing>>, <<InvalidDate, 1>>, <<1, InvalidDate>>,
             <<InvalidDate, InvalidDate>>}

Request(r, a, t) ==
    [resourceId |-> r, assignedTo |-> a, startTime |-> t[1], endTime |-> t[2]]

Malformed ==
    {Request(r, "Ann", t) : r \in {"", "bad", "r3"}, t \in EdgeTimes}
    \cup {Request("r1", a, t) : a \in {"", "LONG"}, t \in {<<1, 0>>, <<1, 2>>}}
    \cup {Request("r1", "Ann", t) : t \in BadTimes}
    \cup {Request("r3", "Ann", <<InvalidDate, 1>>)}

CreateRequests == WellFormed \cup Malformed

\* STEPS 1-5: the handler up to and including the conflict query, as a
\* response: the error it ends with, or code 0 when it goes on to save.
CheckCreate(store, req, currentTime) ==
    LET v == Validate(req, currentTime) IN
    IF v.code # 0
    THEN v
    ELSE IF req.startTime = InvalidDate \/ req.endTime = InvalidDate
    THEN Reply("createAllocation", 500, "Failed to create allocation", 0, {})
    ELSE IF Conflicts(store, req) # {}
    THEN Reply("createAllocation", 409, "Resource already allocated in this time range",
               0, {c.id : c \in Conflicts(store, req)})
    ELSE Reply("createAllocation", 0, "", 0, {})

\* STEP 6: newAllocation.save(). Schema validation, then the pre-save hook,
\* then the insert under a fresh _id.
SaveNew(caller, req) ==
    LET doc == NewAllocation(req, caller, nextId) IN
    IF ~SchemaOk(req.assignedTo)
    THEN /\ response' = Reply("createAllocation", 400, "Validation error", 0, {})
         /\ UNCHANGED <<allocations, nextId>>
    ELSE IF ~PreSaveOk(doc)
    THEN /\ response' = Reply("createAllocation", 500, "Failed to create allocation", 0, {})
         /\ UNCHANGED <<allocations, nextId>>
    ELSE /\ nextId \in AllocIds
         /\ allocations' = allocations \cup {doc}
         /\ nextId' = nextId + 1
         /\ response' = Reply("createAllocation", 201, "Allocation created successfully",
                              doc.id, {})

\* A handler that inserts the document before it runs the conflict query and
\* leaves it behind when it answers 409.
createAllocation_InsertFirst(caller, req) ==
    LET checked == CheckCreate(allocations, req, now) IN
    IF checked.code = 409
    THEN /\ nextId \in AllocIds
         /\ allocations' = allocations \cup {NewAllocation(req, caller, nextId)}
         /\ nextId' = nextId + 1
         /\ response' = checked
    ELSE IF checked.code # 0
    THEN /\ response' = checked
         /\ UNCHANGED <<allocations, nextId>>
    ELSE SaveNew(caller, req)

\* The handler after protect, run without interruption.
createAllocation(caller, req) ==
    LET checked == CheckCreate(allocations, req, now) IN
    IF checked.code # 0
    THEN /\ response' = checked
         /\ UNCHANGED <<allocations, nextId>>
    ELSE SaveNew(caller, req)

\* router.post('/', protect, createAllocation)
PostAllocation ==
    /\ \E caller \in Callers :
          IF Protect(caller) # 0
          THEN /\ response' = Reply("protect", Protect(caller), "Not authorized", 0, {})
               /\ UNCHANGED <<allocations, nextId>>
          ELSE \E req \in CreateRequests : createAllocation(caller, req)
    /\ UNCHANGED <<users, resources, now, inflight, client>>

-----------------------------------------------------------------------------
(* controllers/allocationController.js: updateAllocationStatus *)

\* Allocation.findById(id): the set holding the document, or the empty set.
FindById(store, id) == {a \in store : a.id = id}

\* The conflict query of an approval without _id: {$ne: id}.
ApproveConflicts_WithSelf(store, doc) ==
    FindConflicts(store, doc.resourceId, doc.startTime, doc.endTime)

\* Allocation.find({_id: {$ne: id}, resourceId, approvalStatus: 'approved',
\*                  startTime: {$lt: end}, endTime: {$gt: start}})
ApproveConflicts(store, doc) ==
    {c \in FindConflicts(store, doc.resourceId, doc.startTime, doc.endTime) :
        c.id # doc.id}

\* allocation.approvalStatus = status; allocation.save(): the stored document
\* of that _id gets the new status, its other fields stay.
SaveStatus(store, id, status) ==
    {IF a.id = id THEN [a EXCEPT !.approvalStatus = status] ELSE a : a \in store}

\* A handler that refuses to approve an allocation whose start has passed.
CheckUpdate_StartPassed(store, id, status) ==
    IF status \notin {"approved", "rejected"}
    THEN Reply("updateAllocationStatus", 400, "Status must be", 0, {})
    ELSE IF FindById(store, id) = {}
    THEN Reply("updateAllocationStatus", 404, "Allocation not found", 0, {})
    ELSE LET doc == CHOOSE a \in FindById(store, id) : TRUE IN
         IF status = "approved" /\ doc.startTime < now
         THEN Reply("updateAllocationStatus", 400, "Start time cannot be in the past", id, {})
         ELSE IF status = "approved" /\ ApproveConflicts(store, doc) # {}
         THEN Reply("updateAllocationStatus", 409, "Cannot approve", id, {})
         ELSE Reply("updateAllocationStatus", 0, "", id, {})

\* A handler that accepts every approvalStatus of the schema's enum, 'pending'
\* included.
CheckUpdate_AnyEnumStatus(store, id, status) ==
    IF status \notin {"approved", "rejected", "pending"}
    THEN Reply("updateAllocationStatus", 400, "Status must be", 0, {})
    ELSE IF FindById(store, id) = {}
    THEN Reply("updateAllocationStatus", 404, "Allocation not found", 0, {})
    ELSE LET doc == CHOOSE a \in FindById(store, id) : TRUE IN
         IF status = "approved" /\ ApproveConflicts(store, doc) # {}
         THEN Reply("updateAllocationStatus", 409, "Cannot approve", id, {})
         ELSE Reply("updateAllocationStatus", 0, "", id, {})

\* The handler up to and including the conflict query, as a response: the
\* error it ends with, or code 0 when it goes on to save.
CheckUpdate(store, id, status) ==
    IF status \notin {"approved", "rejected"}
    THEN Reply("updateAllocationStatus", 400, "Status must be", 0, {})
    ELSE IF FindById(store, id) = {}
    THEN Reply("updateAllocationStatus", 404, "Allocation not found", 0, {})
    ELSE LET doc == CHOOSE a \in FindById(store, id) : TRUE IN
         IF status = "approved" /\ ApproveConflicts(store, doc) # {}
         THEN Reply("updateAllocationStatus", 409, "Cannot approve", id, {})
         ELSE Reply("updateAllocationStatus", 0, "", id, {})

\* allocation.approvalStatus = status; await allocation.save(). The save of a
\* document that was deleted since it was loaded throws (answered with 500).
SaveUpdate(id, status) ==
    IF FindById(allocations, id) = {}
    THEN /\ response' = Reply("updateAllocationStatus", 500, "Failed to update", id, {})
         /\ UNCHANGED allocations
    ELSE LET doc == CHOOSE a \in FindById(allocations, id) : TRUE IN
         IF ~PreSaveOk(doc)
         THEN /\ response' = Reply("updateAllocationStatus", 500, "Failed to update", id, {})
              /\ UNCHANGED allocations
         ELSE /\ allocations' = SaveStatus(allocations, id, status)
              /\ response' = Reply("updateAllocationStatus", 200, status, id, {})

\* The handler after protect and adminOnly, run without interruption.
updateAllocationStatus(id, status) ==
    LET checked == CheckUpdate(allocations, id, status) IN
    IF checked.code # 0
    THEN /\ response' = checked
         /\ UNCHANGED allocations
    ELSE SaveUpdate(id, status)

\* protect and adminOnly without the role check of adminOnly.
AdminGate_ProtectOnly(caller) == Protect(caller)

\* protect, then adminOnly: 0 when the handler is reached.
AdminGate(caller) ==
    IF Protect(caller) # 0 THEN Protect(caller) ELSE AdminOnly(caller)

\* The response of the middleware that did not call next().
Denied(caller) ==
    IF Protect(caller) # 0
    THEN Reply("protect", Protect(caller), "Not authorized", 0, {})
    ELSE Reply("adminOnly", 403, "Access denied. Admin privileges required.", 0, {})

\* PUT /api/allocations/:id/status sent with the token of caller.
PutStatusBy(caller) ==
    /\ IF AdminGate(caller) # 0
       THEN /\ response' = Denied(caller)
            /\ UNCHANGED allocations
       ELSE \E id \in AllocIds, status \in StatusInputs :
                updateAllocationStatus(id, status)
    /\ UNCHANGED <<users, resources, nextId, now, inflight, client>>

\* router.put('/:id/status', protect, adminOnly, updateAllocationStatus)
PutStatus == \E caller \in Callers : PutStatusBy(caller)

-----------------------------------------------------------------------------
(* controllers/allocationController.js: deleteAllocation *)

\* A delete that takes every allocation of the resource with it.
deleteAllocation_WholeResource(id) ==
    IF FindById(allocations, id) = {}
    THEN /\ response' = Reply("deleteAllocation", 404, "Allocation not found", 0, {})
         /\ UNCHANGED allocations
    ELSE /\ allocations' =
              {a \in allocations :
                  \A d \in FindById(allocations, id) : a.resourceId # d.resourceId}
         /\ response' = Reply("deleteAllocation", 200, "deleted", id, {})

\* Allocation.findByIdAndDelete(id)
deleteAllocation(id) ==
    IF FindById(allocations, id) = {}
    THEN /\ response' = Reply("deleteAllocation", 404, "Allocation not found", 0, {})
         /\ UNCHANGED allocations
    ELSE /\ allocations' = allocations \ FindById(allocations, id)
         /\ response' = Reply("deleteAllocation", 200, "deleted", id, {})

\* DELETE /api/allocations/:id sent with the token of caller.
DeleteAllocationBy(caller) ==
    /\ IF AdminGate(caller) # 0
       THEN /\ response' = Denied(caller)
            /\ UNCHANGED allocations
       ELSE \E id \in AllocIds : deleteAllocation(id)
    /\ UNCHANGED <<users, resources, nextId, now, inflight, client>>

\* router.delete('/:id', protect, adminOnly, deleteAllocation)
DeleteAllocation == \E caller \in Callers : DeleteAllocationBy(caller)

-----------------------------------------------------------------------------
(* controllers/resourceController.js, dashboardController.js and             *)
(* getAllAllocations: the derived, never stored, statuses                    *)

\* The response of a GET handler: 200 with its data.
View(op, data) ==
    [op |-> op, code |-> 200, message |-> "", id |-> 0, conflicts |-> {}, data |-> data]

\* Allocation.find({resourceId, startTime: {$lte: t}, endTime: {$gte: t}}):
\* the documents findOne may return.
FindActive(store, rid, t) ==
    {a \in store : a.resourceId = rid /\ a.startTime <= t /\ a.endTime >= t}

\* status: activeAllocation ? 'Allocated' : 'Available', with the allocation
\* findOne returned (its _id; 0 for null).
ResourceView(active) ==
    [status |-> IF active = 0 THEN "Available" ELSE "Allocated",
     currentAllocation |-> active]

\* The _ids findOne may return for a resource: any active allocation, or 0
\* (null) when there is none.
ActiveChoices(store, rid, t) ==
    IF FindActive(store, rid, t) = {} THEN {0}
    ELSE {a.id : a \in FindActive(store, rid, t)}

\* GET /api/resources
getAllResources ==
    /\ \E found \in [resources -> AllocIds \cup {0}] :
          /\ \A r \in resources : found[r] \in ActiveChoices(allocations, r, now)
          /\ response' = View("getAllResources",
                              [r \in resources |-> ResourceView(found[r])])
    /\ UNCHANGED <<users, resources, allocations, nextId, now, inflight, client>>

\* GET /api/resources/:id
getResourceById ==
    /\ \E id \in SeededResources \cup {"r3"} :
          IF id \notin resources
          THEN response' = Reply("getResourceById", 404, "Resource not found", 0, {})
          ELSE \E found \in ActiveChoices(allocations, id, now) :
                  response' = View("getResourceById", [r \in {id} |-> ResourceView(found)])
    /\ UNCHANGED <<users, resources, allocations, nextId, now, inflight, client>>

\* An allocation whose end is compared with < instead of <=.
TimeStatus_EndExclusive(a, currentTime) ==
    IF currentTime < a.startTime THEN "Upcoming"
    ELSE IF currentTime >= a.startTime /\ currentTime < a.endTime THEN "Active"
    ELSE "Completed"

\* A status that starts over once an allocation is past its end: the
\* allocation is shown as Upcoming again instead of Completed.
TimeStatus_StartsOver(a, currentTime) ==
    IF currentTime < a.startTime \/ currentTime > a.endTime THEN "Upcoming"
    ELSE "Active"

\* The time status of getAllAllocations (and of the virtual timeStatus).
TimeStatus(a, currentTime) ==
    IF currentTime < a.startTime THEN "Upcoming"
    ELSE IF currentTime >= a.startTime /\ currentTime <= a.endTime THEN "Active"
    ELSE "Completed"

\* GET /api/allocations
getAllAllocations ==
    /\ response' = View("getAllAllocations",
                        [i \in {a.id : a \in allocations} |->
                            LET a == CHOOSE d \in allocations : d.id = i IN
                            [startTime |-> a.startTime, endTime |-> a.endTime,
                             approvalStatus |-> a.approvalStatus,
                             timeStatus |-> TimeStatus(a, now)]])
    /\ UNCHANGED <<users, resources, allocations, nextId, now, inflight, client>>

\* A dashboard that counts the resources of the upcoming allocations as taken.
DashboardStats_UpcomingTaken(store, res, currentTime) ==
    [totalResources |-> Cardinality(res),
     totalAllocations |-> Cardinality(store),
     activeAllocations |->
        Cardinality({a \in store : a.startTime <= currentTime /\ a.endTime >= currentTime}),
     upcomingAllocations |-> Cardinality({a \in store : a.startTime > currentTime}),
     availableResources |->
        Cardinality(res) - Cardinality({a.resourceId : a \in
            {b \in store : b.endTime >= currentTime}})]

\* The counts of getDashboardStats.
DashboardStats(store, res, currentTime) ==
    [totalResources |-> Cardinality(res),
     totalAllocations |-> Cardinality(store),
     activeAllocations |->
        Cardinality({a \in store : a.startTime <= currentTime /\ a.endTime >= currentTime}),
     upcomingAllocations |-> Cardinality({a \in store : a.startTime > currentTime}),
     availableResources |->
        Cardinality(res) - Cardinality({a.resourceId : a \in
            {b \in store : b.startTime <= currentTime /\ b.endTime >= currentTime}})]

\* GET /api/dashboard
getDashboardStats ==
    /\ response' = View("getDashboardStats", DashboardStats(allocations, resources, now))
    /\ UNCHANGED <<users, resources, allocations, nextId, now, inflight, client>>

-----------------------------------------------------------------------------
(* controllers/userController.js *)

\* The account an admin can create, and the ids a user request can name: the
\* seeded admin and standard user, the created account, an id of no account,
\* and the ids of the two admins written with upper-case hex digits.
NewUserId == "carol"
UserTargets == {"alice", "frank", NewUserId, "ghost", "ALICE", "CAROL"}

\* The cast of the route parameter by findById / findByIdAndDelete: the hex
\* digits of an ObjectId are read whatever their case, and _id.toString()
\* writes them in lower case (the ids of the model are those strings).
CastObjectId(id) ==
    CASE id = "ALICE" -> "alice"
      [] id = "CAROL" -> NewUserId
      [] OTHER -> id

\* The tokens requests carry once accounts are created.
AllCallers == Callers \cup {NewUserId}

\* email.toLowerCase()
ToLowerCase(email) ==
    CASE email = "Carol" -> "carol"
      [] email = "ALICE" -> "alice"
      [] OTHER -> email

\* The bodies of POST /api/users: email (none: ""), role (none: ""), password
\* (none: "").
UserRequests ==
    {[email |-> "Carol", role |-> r, password |-> ""] :
        r \in {"", "User", "Super User", "Manager"}}
    \cup {[email |-> "Carol", role |-> "", password |-> "abc"],
          [email |-> "ALICE", role |-> "", password |-> ""],
          [email |-> "", role |-> "", password |-> ""]}

\* createUser. A missing email makes email.toLowerCase() throw; a role outside
\* the enum or a password under 6 characters fails the validation of save();
\* both are answered by the catch block. The store hands out one new _id,
\* NewUserId: a second account is created only after the first was deleted.
createUser(req) ==
    IF req.email = ""
    THEN /\ response' = Reply("createUser", 500, "Failed to create user", 0, {})
         /\ UNCHANGED users
    ELSE IF \E u \in DOMAIN users : users[u].email = ToLowerCase(req.email)
    THEN /\ response' = Reply("createUser", 400, "User with this email already exists", 0, {})
         /\ UNCHANGED users
    ELSE IF req.role \notin {"", "User", "Super User"} \/ req.password = "abc"
    THEN /\ response' = Reply("createUser", 500, "Failed to create user", 0, {})
         /\ UNCHANGED users
    ELSE /\ NewUserId \notin DOMAIN users
         /\ users' = [u \in DOMAIN users \cup {NewUserId} |->
                        IF u = NewUserId
                        THEN User(IF req.role = "" THEN "User" ELSE req.role,
                                  "active", ToLowerCase(req.email),
                                  IF req.password = "" THEN "123456" ELSE req.password)
                        ELSE users[u]]
         /\ response' = Reply("createUser", 201, "User created successfully", 0, {})

\* updateUserStatus: the account is loaded by the cast id, the caller's
\* _id.toString() is compared with the route parameter as it was sent.
updateUserStatus(caller, id, status) ==
    IF status \notin {"active", "blocked"}
    THEN /\ response' = Reply("updateUserStatus", 400, "Status must be", 0, {})
         /\ UNCHANGED users
    ELSE IF CastObjectId(id) \notin DOMAIN users
    THEN /\ response' = Reply("updateUserStatus", 404, "User not found", 0, {})
         /\ UNCHANGED users
    ELSE IF caller = id
    THEN /\ response' = Reply("updateUserStatus", 400, "You cannot change your own status", 0, {})
         /\ UNCHANGED users
    ELSE /\ users' = [users EXCEPT ![CastObjectId(id)].status = status]
         /\ response' = Reply("updateUserStatus", 200, status, 0, {})

\* resetUserPassword
resetUserPassword(id, newPassword) ==
    IF newPassword \in {"", "abc"}
    THEN /\ response' = Reply("resetUserPassword", 400,
                              "New password must be at least 6 characters", 0, {})
         /\ UNCHANGED users
    ELSE IF CastObjectId(id) \notin DOMAIN users
    THEN /\ response' = Reply("resetUserPassword", 404, "User not found", 0, {})
         /\ UNCHANGED users
    ELSE /\ users' = [users EXCEPT ![CastObjectId(id)].password = Hash(newPassword)]
         /\ response' = Reply("resetUserPassword", 200, "Password reset successfully", 0, {})

\* deleteUser: the caller's _id.toString() is compared with the route
\* parameter as it was sent, the account is deleted by the cast id.
deleteUser(caller, id) ==
    IF caller = id
    THEN /\ response' = Reply("deleteUser", 400, "You cannot delete your own account", 0, {})
         /\ UNCHANGED users
    ELSE IF CastObjectId(id) \notin DOMAIN users
    THEN /\ response' = Reply("deleteUser", 404, "User not found", 0, {})
         /\ UNCHANGED users
    ELSE /\ users' = [u \in DOMAIN users \ {CastObjectId(id)} |-> users[u]]
         /\ response' = Reply("deleteUser", 200, "User deleted successfully", 0, {})

\* POST /api/users sent with the token of caller.
PostUserBy(caller) ==
    /\ IF AdminGate(caller) # 0
       THEN /\ response' = Denied(caller)
            /\ UNCHANGED users
       ELSE \E req \in UserRequests : createUser(req)
    /\ UNCHANGED <<resources, allocations, nextId, now, inflight, client>>

\* PUT /api/users/:id/status sent with the token of caller.
PutUserStatusBy(caller) ==
    /\ IF AdminGate(caller) # 0
       THEN /\ response' = Denied(caller)
            /\ UNCHANGED users
       ELSE \E id \in UserTargets, status \in {"active", "blocked", "paused"} :
                updateUserStatus(caller, id, status)
    /\ UNCHANGED <<resources, allocations, nextId, now, inflight, client>>

\* PUT /api/users/:id/password sent with the token of caller.
PutUserPasswordBy(caller) ==
    /\ IF AdminGate(caller) # 0
       THEN /\ response' = Denied(caller)
            /\ UNCHANGED users
       ELSE \E id \in {"frank", "ghost"}, newPassword \in {"", "abc", "reset12"} :
                resetUserPassword(id, newPassword)
    /\ UNCHANGED <<resources, allocations, nextId, now, inflight, client>>

\* DELETE /api/users/:id sent with the token of caller.
DeleteUserBy(caller) ==
    /\ IF AdminGate(caller) # 0
       THEN /\ response' = Denied(caller)
            /\ UNCHANGED users
       ELSE \E id \in UserTargets : deleteUser(caller, id)
    /\ UNCHANGED <<resources, allocations, nextId, now, inflight, client>>

\* router.post('/', protect, adminOnly, createUser)
PostUser == \E caller \in AllCallers : PostUserBy(caller)

\* router.put('/:id/status', protect, adminOnly, updateUserStatus)
PutUserStatus == \E caller \in AllCallers : PutUserStatusBy(caller)

\* router.put('/:id/password', protect, adminOnly, resetUserPassword)
PutUserPassword == \E caller \in AllCallers : PutUserPasswordBy(caller)

\* router.delete('/:id', protect, adminOnly, deleteUser)
DeleteUser == \E caller \in AllCallers : DeleteUserBy(caller)

-----------------------------------------------------------------------------
(* middleware/authMiddleware.js: protect, statement by statement *)

\* generateToken(id): a token signed with JWT_SECRET that carries the user id.
TokenOf(u) == <<"jwt", u>>

\* No token ('' or undefined), and a token jwt.verify rejects (bad signature,
\* expired, not a token).
NoToken == <<>>
BadToken == <<"expired">>

Tokens == {TokenOf(u) : u \in AllCallers \ {"notoken"}}

\* The Authorization header: absent, or a scheme and what follows the blank.
NoHeader == [scheme |-> "", token |-> NoToken]
Headers ==
    {NoHeader} \cup
    {[scheme |-> sc, token |-> t] :
        sc \in {"Bearer", "Basic"}, t \in Tokens \cup {NoToken, BadToken}}

\* The header a caller of the routes sends.
HeaderOf(caller) ==
    IF caller = "notoken" THEN NoHeader
    ELSE [scheme |-> "Bearer", token |-> TokenOf(caller)]

\* jwt.verify(token, JWT_SECRET) returns the payload of a token it accepts.
Verifies(token) == token \in Tokens
Decoded(token) == token[2]

\* What one run of a middleware did: the statuses of the responses it sent,
\* in order, and how often it called next().
Ran(sent, next) == [sent |-> sent, next |-> next]

\* protect with a catch block that does not return.
ProtectRun_CatchFallsThrough(header) ==
    LET token == IF header.scheme = "Bearer" THEN header.token ELSE NoToken
        inTry ==
            IF header.scheme # "Bearer" THEN Ran(<<>>, 0)
            ELSE IF ~Verifies(token) THEN Ran(<<401>>, 0)
            ELSE IF Decoded(token) \notin DOMAIN users THEN Ran(<<401>>, 0)
            ELSE IF users[Decoded(token)].status = "blocked" THEN Ran(<<403>>, 0)
            ELSE Ran(<<>>, 1)
        returned == inTry.sent # <<>> /\ Verifies(token)
    IN  IF returned THEN inTry
        ELSE IF token = NoToken THEN Ran(Append(inTry.sent, 401), inTry.next)
        ELSE inTry

\* protect: the if over the header with its try and catch, each response a
\* return, then the if over !token.
ProtectRun(header) ==
    LET token == IF header.scheme = "Bearer" THEN header.token ELSE NoToken
        inTry ==
            IF header.scheme # "Bearer" THEN Ran(<<>>, 0)
            ELSE IF ~Verifies(token) THEN Ran(<<401>>, 0)
            ELSE IF Decoded(token) \notin DOMAIN users THEN Ran(<<401>>, 0)
            ELSE IF users[Decoded(token)].status = "blocked" THEN Ran(<<403>>, 0)
            ELSE Ran(<<>>, 1)
        returned == inTry.sent # <<>>
    IN  IF returned THEN inTry
        ELSE IF token = NoToken THEN Ran(Append(inTry.sent, 401), inTry.next)
        ELSE inTry

-----------------------------------------------------------------------------
(* controllers/authController.js *)

\* The bodies of POST /api/auth/login: email and password (none: "").
LoginRequests ==
    {[email |-> e, password |-> pw] :
        e \in {"alice", "ALICE", "frank", "blocked", "Carol", "nobody", ""},
        pw \in {"seeded", "123456", "wrong", ""}}

\* The response of login: status, message and, with 200, the token.
LoginReply(code, message, token) ==
    [op |-> "login", code |-> code, message |-> message, id |-> 0, conflicts |-> {},
     data |-> token]

\* user.matchPassword(password): bcrypt.compare with the stored hash.
MatchPassword(user, password) == user.password = Hash(password)

\* A login that does not look at the status of the account.
LoginCheck_NoBlockedCheck(req) ==
    IF req.email = "" \/ req.password = ""
    THEN LoginReply(400, "Please provide email and password", NoToken)
    ELSE LET found == {u \in DOMAIN users : users[u].email = ToLowerCase(req.email)} IN
         IF found = {}
         THEN LoginReply(401, "Invalid email or password", NoToken)
         ELSE LET u == CHOOSE f \in found : TRUE IN
              IF ~MatchPassword(users[u], req.password)
              THEN LoginReply(401, "Invalid email or password", NoToken)
              ELSE LoginReply(200, "Login successful", TokenOf(u))

\* login, as the response it sends.
LoginCheck(req) ==
    IF req.email = "" \/ req.password = ""
    THEN LoginReply(400, "Please provide email and password", NoToken)
    ELSE LET found == {u \in DOMAIN users : users[u].email = ToLowerCase(req.email)} IN
         IF found = {}
         THEN LoginReply(401, "Invalid email or password", NoToken)
         ELSE LET u == CHOOSE f \in found : TRUE IN
              IF users[u].status = "blocked"
              THEN LoginReply(403, "Your account has been blocked. Contact administrator.",
                              NoToken)
              ELSE IF ~MatchPassword(users[u], req.password)
              THEN LoginReply(401, "Invalid email or password", NoToken)
              ELSE LoginReply(200, "Login successful", TokenOf(u))

\* login
login(req) ==
    /\ response' = LoginCheck(req)
    /\ UNCHANGED <<users, resources, allocations, nextId, now, inflight, client>>

\* router.post('/login', login)
PostLogin == \E req \in LoginRequests : login(req)

-----------------------------------------------------------------------------
(* client: context/AuthContext.js (AuthProvider), pages/Login, App.js        *)
(* localStorage holds 'token' and 'user', written and removed together: the  *)
(* model keeps the token. user is the id of the logged-in user, "" for null. *)

NoLogin == [email |-> "", password |-> ""]
NoReply == LoginReply(0, "", NoToken)

\* The web client before the app is opened in the browser.
Closed ==
    [open |-> FALSE, storage |-> NoToken, user |-> "", token |-> NoToken,
     loading |-> TRUE, check |-> "none", storedToken |-> NoToken, ok |-> FALSE,
     login |-> "none", body |-> NoLogin, reply |-> NoReply]

\* What localStorage holds when the app is opened: nothing, an expired
\* token, the token of an account that is blocked by now, a token that is
\* still good.
StoredTokens == {NoToken, BadToken, TokenOf("blocked"), TokenOf("frank")}

\* What the user types into the login form.
FormInputs ==
    {[email |-> e, password |-> pw] :
        e \in {"alice", "blocked", "nobody", ""}, pw \in {"seeded", "wrong"}}

\* AuthProvider mounts: useState(null), useState(localStorage.getItem('token')),
\* useState(true), and the effect starts checkAuth, which fetches /auth/me
\* when a token is stored and ends at once when none is.
OpenApp ==
    /\ ~client.open
    /\ \E stored \in StoredTokens :
          client' = [Closed EXCEPT !.open = TRUE, !.storage = stored, !.token = stored,
                                   !.storedToken = stored,
                                   !.loading = (stored # NoToken),
                                   !.check = IF stored # NoToken THEN "fetching" ELSE "done"]
    /\ UNCHANGED <<users, resources, allocations, nextId, now, response, inflight>>

\* GET /api/auth/me with the stored token: protect, then getMe; response.ok
\* is whether protect let the request through.
CheckAuthServer ==
    /\ client.check = "fetching"
    /\ client' = [client EXCEPT
                     !.check = "replied",
                     !.ok = (ProtectRun([scheme |-> "Bearer",
                                         token |-> client.storedToken]).next = 1)]
    /\ UNCHANGED <<users, resources, allocations, nextId, now, response, inflight>>

\* The fetch of checkAuth rejects (the server is not reached): the catch block.
CheckAuthNetworkError ==
    /\ client.check = "fetching"
    /\ client' = [client EXCEPT !.check = "replied", !.ok = FALSE]
    /\ UNCHANGED <<users, resources, allocations, nextId, now, response, inflight>>

\* checkAuth resumed after its await: setUser and setToken(storedToken), or
\* the storage is cleared and token and user are set to null; setLoading(false).
CheckAuthReturn ==
    /\ client.check = "replied"
    /\ client' = IF client.ok
                 THEN [client EXCEPT !.check = "done", !.loading = FALSE,
                                     !.user = Decoded(client.storedToken),
                                     !.token = client.storedToken]
                 ELSE [client EXCEPT !.check = "done", !.loading = FALSE,
                                     !.storage = NoToken, !.token = NoToken, !.user = ""]
    /\ UNCHANGED <<users, resources, allocations, nextId, now, response, inflight>>

\* handleSubmit of the login page, which /login renders whenever no user is
\* set, loading or not: an empty field is refused in the form, otherwise
\* login(email, password) fetches POST /api/auth/login.
LoginSubmit ==
    /\ client.open
    /\ client.user = ""
    /\ client.login = "none"
    /\ \E body \in FormInputs :
          client' = IF body.email = "" \/ body.password = ""
                    THEN client
                    ELSE [client EXCEPT !.login = "fetching", !.body = body]
    /\ client' # client
    /\ UNCHANGED <<users, resources, allocations, nextId, now, response, inflight>>

\* POST /api/auth/login handled by the server.
LoginServer ==
    /\ client.login = "fetching"
    /\ client' = [client EXCEPT !.login = "replied", !.reply = LoginCheck(client.body)]
    /\ UNCHANGED <<users, resources, allocations, nextId, now, response, inflight>>

\* login resumed after its awaits: on success the token and the user are
\* stored in localStorage and set in the state; otherwise the message is shown.
LoginReturn ==
    /\ client.login = "replied"
    /\ client' = IF client.reply.code = 200
                 THEN [client EXCEPT !.login = "none", !.body = NoLogin, !.reply = NoReply,
                                     !.storage = client.reply.data,
                                     !.token = client.reply.data,
                                     !.user = Decoded(client.reply.data)]
                 ELSE [client EXCEPT !.login = "none", !.body = NoLogin, !.reply = NoReply]
    /\ UNCHANGED <<users, resources, allocations, nextId, now, response, inflight>>

\* logout
Logout ==
    /\ client.user # ""
    /\ client' = [client EXCEPT !.storage = NoToken, !.token = NoToken, !.user = ""]
    /\ UNCHANGED <<users, resources, allocations, nextId, now, response, inflight>>

\* An admin blocks or unblocks the standard user while the client runs.
ManageAccount ==
    \E status \in {"active", "blocked"} :
        /\ updateUserStatus("alice", "frank", status)
        /\ UNCHANGED <<resources, allocations, nextId, now, inflight, client>>

-----------------------------------------------------------------------------
(* controllers/resourceController.js: createResource *)

\* The _id the store gives the resource that is created.
NewResourceId == "r3"

\* The bodies of POST /api/resources: name and type (none: "").
ResourceRequests ==
    {[name |-> n, type |-> t] : n \in {"", "Lab", "LONG"}, t \in {"", "Room"}}

\* createResource
createResource(req) ==
    IF req.name = "" \/ req.type = ""
    THEN /\ response' = Reply("createResource", 400, "Name and type are required fields", 0, {})
         /\ UNCHANGED resources
    ELSE IF req.name = "LONG"
    THEN /\ response' = Reply("createResource", 400, "Validation error", 0, {})
         /\ UNCHANGED resources
    ELSE /\ resources' = resources \cup {NewResourceId}
         /\ response' = Reply("createResource", 201, "Resource created successfully", 0, {})

\* POST /api/resources sent with the token of caller: no middleware reads it.
PostResourceBy(caller) ==
    /\ \E req \in ResourceRequests : createResource(req)
    /\ UNCHANGED <<users, allocations, nextId, now, inflight, client>>

\* router.post('/', createResource)
PostResource == \E caller \in AllCallers : PostResourceBy(caller)

-----------------------------------------------------------------------------
(* Requests that interleave: each handler is suspended at its awaits, and    *)
(* between its conflict query and its save other handlers run.               *)

\* The handlers the server runs at once.
Procs == {1, 2}

Idle == [op |-> "idle", caller |-> "", resourceId |-> "", startTime |-> 0,
         endTime |-> 0, id |-> 0, status |-> "", target |-> ""]

\* The requests sent concurrently: well-formed, for the seeded resources.
ConcIntervals == {<<0, 2>>, <<1, 3>>, <<2, 3>>}
ConcRequests == {Request(r, "Ann", t) : r \in SeededResources, t \in ConcIntervals}

\* createAllocation from its start to the await of Allocation.find: the
\* handler answers with an error, or is suspended before newAllocation.save().
CreateQuery(p, caller, req) ==
    /\ inflight[p] = Idle
    /\ Protect(caller) = 0
    /\ LET checked == CheckCreate(allocations, req, now) IN
       IF checked.code # 0
       THEN /\ response' = checked
            /\ UNCHANGED inflight
       ELSE /\ inflight' = [inflight EXCEPT ![p] =
                               [op |-> "create", caller |-> caller,
                                resourceId |-> req.resourceId,
                                startTime |-> req.startTime, endTime |-> req.endTime,
                                id |-> 0, status |-> "", target |-> ""]]
            /\ UNCHANGED response
    /\ UNCHANGED <<users, resources, allocations, nextId, now, client>>

\* createAllocation resumed: await newAllocation.save(), then the response.
CreateSave(p) ==
    /\ inflight[p].op = "create"
    /\ SaveNew(inflight[p].caller,
               Request(inflight[p].resourceId, "Ann",
                       <<inflight[p].startTime, inflight[p].endTime>>))
    /\ inflight' = [inflight EXCEPT ![p] = Idle]
    /\ UNCHANGED <<users, resources, now, client>>

\* updateAllocationStatus from its start to the await of Allocation.find: the
\* handler answers with an error, or is suspended before allocation.save().
UpdateQuery(p, caller, id, status) ==
    /\ inflight[p] = Idle
    /\ AdminGate(caller) = 0
    /\ LET checked == CheckUpdate(allocations, id, status) IN
       IF checked.code # 0
       THEN /\ response' = checked
            /\ UNCHANGED inflight
       ELSE /\ inflight' = [inflight EXCEPT ![p] =
                               [op |-> "update", caller |-> caller, resourceId |-> "",
                                startTime |-> 0, endTime |-> 0,
                                id |-> id, status |-> status, target |-> ""]]
            /\ UNCHANGED response
    /\ UNCHANGED <<users, resources, allocations, nextId, now, client>>

\* updateAllocationStatus resumed: await allocation.save(), then the response.
UpdateSave(p) ==
    /\ inflight[p].op = "update"
    /\ SaveUpdate(inflight[p].id, inflight[p].status)
    /\ inflight' = [inflight EXCEPT ![p] = Idle]
    /\ UNCHANGED <<users, resources, nextId, now, client>>

ConcCreateQuery ==
    \E p \in Procs, caller \in {"alice", "frank"}, req \in ConcRequests :
        CreateQuery(p, caller, req)

ConcCreateSave == \E p \in Procs : CreateSave(p)

ConcUpdateQuery ==
    \E p \in Procs, id \in AllocIds, status \in {"approved", "rejected"} :
        UpdateQuery(p, "alice", id, status)

ConcUpdateSave == \E p \in Procs : UpdateSave(p)

\* The admins whose requests run concurrently, and the accounts they name by
\* the id the user list shows (lower-case hex).
ConcAdmins == {"alice", NewUserId}
ConcTargets == {"alice", "frank", NewUserId}

\* protect's await of User.findById(decoded.id) resolves for a request to
\* PUT /users/:id/status or DELETE /users/:id; protect, adminOnly and the
\* handler then run up to the handler's first query: an error response, or
\* the handler is suspended on User.findById(id) / User.findByIdAndDelete(id).
UserGate(p, caller, op, id, status) ==
    /\ inflight[p] = Idle
    /\ IF AdminGate(caller) # 0
       THEN /\ response' = Denied(caller)
            /\ UNCHANGED inflight
       ELSE IF op = "updateUserStatus" /\ status \notin {"active", "blocked"}
       THEN /\ response' = Reply("updateUserStatus", 400, "Status must be", 0, {})
            /\ UNCHANGED inflight
       ELSE IF op = "deleteUser" /\ caller = id
       THEN /\ response' = Reply("deleteUser", 400, "You cannot delete your own account", 0, {})
            /\ UNCHANGED inflight
       ELSE /\ inflight' = [inflight EXCEPT ![p] =
                               [Idle EXCEPT !.op = op, !.caller = caller,
                                            !.target = id, !.status = status]]
            /\ UNCHANGED response
    /\ UNCHANGED <<users, resources, allocations, nextId, now, client>>

\* updateUserStatus resumed with the document of User.findById(id): 404, the
\* self check, or user.status = status and the handler is suspended on
\* user.save().
StatusLoad(p) ==
    /\ inflight[p].op = "updateUserStatus"
    /\ IF CastObjectId(inflight[p].target) \notin DOMAIN users
       THEN /\ response' = Reply("updateUserStatus", 404, "User not found", 0, {})
            /\ inflight' = [inflight EXCEPT ![p] = Idle]
       ELSE IF inflight[p].caller = inflight[p].target
       THEN /\ response' = Reply("updateUserStatus", 400,
                                 "You cannot change your own status", 0, {})
            /\ inflight' = [inflight EXCEPT ![p] = Idle]
       ELSE /\ inflight' = [inflight EXCEPT ![p].op = "user.save"]
            /\ UNCHANGED response
    /\ UNCHANGED <<users, resources, allocations, nextId, now, client>>

\* user.save() of updateUserStatus, then the response. The save of a document
\* that was deleted since it was loaded throws (answered with 500).
StatusSave(p) ==
    /\ inflight[p].op = "user.save"
    /\ LET id == CastObjectId(inflight[p].target) IN
       IF id \notin DOMAIN users
       THEN /\ response' = Reply("updateUserStatus", 500, "Failed to update user status", 0, {})
            /\ UNCHANGED users
       ELSE /\ users' = [users EXCEPT ![id].status = inflight[p].status]
            /\ response' = Reply("updateUserStatus", 200, inflight[p].status, 0, {})
    /\ inflight' = [inflight EXCEPT ![p] = Idle]
    /\ UNCHANGED <<resources, allocations, nextId, now, client>>

\* deleteUser resumed with the result of User.findByIdAndDelete(id).
UserDelete(p) ==
    /\ inflight[p].op = "deleteUser"
    /\ LET id == CastObjectId(inflight[p].target) IN
       IF id \notin DOMAIN users
       THEN /\ response' = Reply("deleteUser", 404, "User not found", 0, {})
            /\ UNCHANGED users
       ELSE /\ users' = [u \in DOMAIN users \ {id} |-> users[u]]
            /\ response' = Reply("deleteUser", 200, "User deleted successfully", 0, {})
    /\ inflight' = [inflight EXCEPT ![p] = Idle]
    /\ UNCHANGED <<resources, allocations, nextId, now, client>>

ConcUserGate ==
    \E p \in Procs, caller \in ConcAdmins, op \in {"updateUserStatus", "deleteUser"},
       id \in ConcTargets, status \in {"active", "blocked"} :
        UserGate(p, caller, op, id, status)

ConcStatusLoad == \E p \in Procs : StatusLoad(p)

ConcStatusSave == \E p \in Procs : StatusSave(p)

ConcUserDelete == \E p \in Procs : UserDelete(p)

\* The seeded admin creates an account, run without interruption.
CreateAccount == PostUserBy("alice")

\* A standard user's request for a booking, run without interruption.
RequestBooking ==
    /\ \E req \in ConcRequests : createAllocation("frank", req)
    /\ UNCHANGED <<users, resources, now, inflight, client>>

-----
(* The clock *)

Tick ==
    /\ now + 1 \in ClockInstants
    /\ now' = now + 1
    /\ UNCHANGED <<users, resources, allocations, nextId, response, inflight, client>>

-----------------------------------------------------------------------------

Init ==
    /\ users = [u \in UserIds |->
                  IF u = "alice" THEN User("Super User", "active", u, "seeded")
                  ELSE IF u = "frank" THEN User("User", "active", u, "seeded")
                  ELSE User("User", "blocked", u, "seeded")]
    /\ resources = SeededResources
    /\ allocations = {}
    /\ nextId = 1
    /\ now = 0
    /\ response = NoResponse
    /\ inflight = [p \in Procs |-> Idle]
    /\ client = Closed

Next ==
    \/ PostAllocation
    \/ PutStatus
    \/ DeleteAllocation
    \/ Tick

Spec == Init /\ [][Next]_vars

\* Admins and users book concurrently.
NextConcCreate ==
    \/ ConcCreateQuery
    \/ ConcCreateSave

SpecConcCreate == Init /\ [][NextConcCreate]_vars

\* Users request bookings; the admin approves or rejects them concurrently.
NextConcApprove ==
    \/ RequestBooking
    \/ ConcUpdateQuery
    \/ ConcUpdateSave

SpecConcApprove == Init /\ [][NextConcApprove]_vars

\* Two admins manage the accounts concurrently.
NextConcAdmin ==
    \/ CreateAccount
    \/ ConcUserGate
    \/ ConcStatusLoad
    \/ ConcStatusSave
    \/ ConcUserDelete

SpecConcAdmin == Init /\ [][NextConcAdmin]_vars

\* The web client from the opening of the app, against the server.
NextClient ==
    \/ OpenApp
    \/ CheckAuthServer
    \/ CheckAuthNetworkError
    \/ CheckAuthReturn
    \/ LoginSubmit
    \/ LoginServer
    \/ LoginReturn
    \/ Logout
    \/ ManageAccount

SpecClient == Init /\ [][NextClient]_vars

\* A booking by the admin or by a standard user, run without interruption.
BookResource ==
    /\ \E caller \in {"alice", "frank"}, req \in ConcRequests :
          createAllocation(caller, req)
    /\ UNCHANGED <<users, resources, now, inflight, client>>

\* The admin decides on a request.
DecideRequest ==
    /\ \E id \in AllocIds, status \in {"approved", "rejected"} :
          updateAllocationStatus(id, status)
    /\ UNCHANGED <<users, resources, nextId, now, inflight, client>>

\* The admin deletes an allocation.
RemoveAllocation ==
    /\ \E id \in AllocIds : deleteAllocation(id)
    /\ UNCHANGED <<users, resources, nextId, now, inflight, client>>

\* Time passes, up to and beyond the end of the bookings. A response is read
\* when it is sent: at the next instant no request is being answered.
Advance ==
    /\ now + 1 \in Instants
    /\ now' = now + 1
    /\ response' = NoResponse
    /\ UNCHANGED <<users, resources, allocations, nextId, inflight, client>>

\* Bookings are made and decided while time passes, and the clients read the
\* derived statuses.
NextViews ==
    \/ BookResource
    \/ DecideRequest
    \/ RemoveAllocation
    \/ Advance
    \/ getAllResources
    \/ getResourceById
    \/ getAllAllocations
    \/ getDashboardStats

SpecViews == Init /\ [][NextViews]_vars

\* The booking requests sent while the accounts are managed.
SlotRequests == {Request("r1", "Ann", <<0, 2>>)}

\* POST /api/allocations sent with the token of caller.
BookSlotBy(caller) ==
    /\ IF Protect(caller) # 0
       THEN /\ response' = Reply("protect", Protect(caller), "Not authorized", 0, {})
            /\ UNCHANGED <<allocations, nextId>>
       ELSE \E req \in SlotRequests : createAllocation(caller, req)
    /\ UNCHANGED <<users, resources, now, inflight, client>>

BookSlot == \E caller \in AllCallers : BookSlotBy(caller)

DecideAllocation == \E caller \in AllCallers : PutStatusBy(caller)

DropAllocation == \E caller \in AllCallers : DeleteAllocationBy(caller)

\* Every kind of caller sends requests to the admin-only routes, to the
\* resource route and to the booking route.
NextAdmin ==
    \/ PostUser
    \/ PutUserStatus
    \/ PutUserPassword
    \/ DeleteUser
    \/ PostResource
    \/ BookSlot
    \/ DecideAllocation
    \/ DropAllocation
    \/ PostLogin

SpecAdmin == Init /\ [][NextAdmin]_vars

-----------------------------------------------------------------------------
(* Properties *)

\* The overlap rule of the design: [s1, e1) and [s2, e2) overlap.
Overlap(s1, e1, s2, e2) == s1 < e2 /\ e1 > s2

Approved(a) == a.approvalStatus = "approved"

\* C1: when requests run one at a time, no two approved allocations of the
\* same resource overlap.
NoOverlappingApproved ==
    \A a, b \in allocations :
        (a # b /\ a.resourceId = b.resourceId /\ Approved(a) /\ Approved(b))
            => ~(a.startTime < b.endTime /\ a.endTime > b.startTime)

\* C1 witness: an approval went through next to another approved allocation
\* of the same resource.
ApprovedNextToApproved ==
    /\ response.op = "updateAllocationStatus"
    /\ response.code = 200
    /\ \E a, b \in allocations :
          /\ a.id = response.id /\ b.id # a.id
          /\ a.resourceId = b.resourceId
          /\ Approved(a) /\ Approved(b)

\* C2: of concurrent createAllocation requests for overlapping intervals of a
\* resource at most one is persisted as approved: at every instant a resource
\* is held by at most one approved allocation.
AtMostOneApprovedHolder ==
    \A r \in SeededResources, t \in Instants :
        Cardinality({a \in allocations :
                        /\ a.resourceId = r /\ Approved(a)
                        /\ a.startTime <= t /\ t < a.endTime}) <= 1

\* C3: two pending allocations of the same resource with overlapping
\* intervals are never both approved, also when the approvals interleave.
OverlappingPairNotBothApproved ==
    \A a, b \in allocations :
        (/\ a.id # b.id
         /\ a.resourceId = b.resourceId
         /\ Overlap(a.startTime, a.endTime, b.startTime, b.endTime))
            => ~(Approved(a) /\ Approved(b))

\* C4: updateAllocationStatus never changes the status of an allocation that
\* is already approved or rejected.
DecidedIsTerminal ==
    [][\A a \in allocations : \A b \in allocations' :
          (a.id = b.id /\ a.approvalStatus \in {"approved", "rejected"})
              => b.approvalStatus = a.approvalStatus]_vars

\* The well-typed requests whose endTime is not after their startTime.
BackwardRequests ==
    {req \in CreateRequests : FieldsPresent(req) /\ DateLE(req.endTime, req.startTime)}

\* C5: every stored allocation has endTime > startTime, and a createAllocation
\* request with endTime <= startTime is refused (400) before anything is saved.
EndAfterStart ==
    /\ \A a \in allocations : a.endTime > a.startTime
    /\ \A req \in BackwardRequests : CheckCreate(allocations, req, now).code = 400

\* C5 witness: a request with endTime <= startTime was refused while the
\* store holds allocations.
BackwardRangeRefused ==
    /\ response.message = "End time must be after start time"
    /\ allocations # {}

\* The requests that pass STEPS 1-4 now: fields present, dates parsed, a range
\* that runs forward and does not start in the past, an existing resource.
ValidRequests ==
    {req \in CreateRequests :
        /\ Validate(req, now).code = 0
        /\ req.startTime # InvalidDate /\ req.endTime # InvalidDate}

\* The conflict set of the design: the approved allocations of the resource
\* whose interval overlaps the proposed one.
ConflictSet(req) ==
    {a \in allocations :
        /\ a.resourceId = req.resourceId
        /\ Approved(a)
        /\ Overlap(a.startTime, a.endTime, req.startTime, req.endTime)}

Blocked(doc) ==
    \E c \in allocations :
        /\ c.id # doc.id
        /\ c.resourceId = doc.resourceId
        /\ Approved(c)
        /\ Overlap(c.startTime, c.endTime, doc.startTime, doc.endTime)

\* C7: approving an existing allocation is refused with 409 and changes
\* nothing iff another approved allocation of its resource overlaps it;
\* otherwise it is answered 200 and the allocation is approved.
ApproveIffNotBlocked ==
    [][response'.op = "updateAllocationStatus"
        => \A doc \in allocations :
              updateAllocationStatus(doc.id, "approved")
                  => IF Blocked(doc)
                     THEN response'.code = 409 /\ allocations' = allocations
                     ELSE /\ response'.code = 200
                          /\ \A b \in allocations' : b.id = doc.id => Approved(b)]_vars

\* C7 witness: of two overlapping requests one is approved, and the approval
\* of the other was refused.
SecondApprovalRefused ==
    /\ response.op = "updateAllocationStatus"
    /\ response.code = 409
    /\ \E p, q \in allocations :
          /\ p.id = response.id /\ q.id # p.id
          /\ p.resourceId = q.resourceId
          /\ Overlap(p.startTime, p.endTime, q.startTime, q.endTime)
          /\ p.approvalStatus = "pending" /\ Approved(q)

\* C8: a created allocation is approved when its creator is a Super User and
\* pending otherwise.
StatusFollowsRole ==
    [][(response'.op = "createAllocation" /\ response'.code = 201)
        => \A caller \in UserIds, req \in CreateRequests :
              (Protect(caller) = 0 /\ createAllocation(caller, req))
                  => \E doc \in allocations' :
                        /\ doc.id = response'.id
                        /\ doc \notin allocations
                        /\ doc.approvalStatus =
                              IF users[caller].role = "Super User"
                              THEN "approved" ELSE "pending"]_vars

\* C8 witness: the booking just created is approved.
AdminBookingApproved ==
    /\ response.op = "createAllocation"
    /\ response.code = 201
    /\ \E doc \in allocations : doc.id = response.id /\ Approved(doc)

\* C9: a createAllocation request that does not end in 201 leaves the
\* allocations as they were.
ErrorLeavesStore ==
    [][(/\ response'.op \in {"createAllocation", "protect"}
        /\ response'.code # 201
        /\ (allocations' # allocations \/ nextId' # nextId))
           => ~PostAllocation]_vars

\* C9 witness: a booking was refused for a conflict and the store holds only
\* the allocation it conflicts with.
ConflictLeftNoRecord ==
    /\ response.op = "createAllocation"
    /\ response.code = 409
    /\ response.conflicts # {}
    /\ {a.id : a \in allocations} = response.conflicts
    /\ nextId = 2

\* The requests whose fields are present and parse, with a well-formed id.
TypedRequests ==
    {req \in CreateRequests :
        /\ FieldsPresent(req)
        /\ req.startTime # InvalidDate /\ req.endTime # InvalidDate
        /\ req.resourceId # "bad"}

\* C10: the preconditions are checked in the order range, past, resource, and
\* only then the overlap search, each with its own reason.
FailFastOrder ==
    \A req \in TypedRequests :
        LET checked == CheckCreate(allocations, req, now) IN
        IF req.endTime <= req.startTime
        THEN checked.code = 400 /\ checked.message = "End time must be after start time"
        ELSE IF req.startTime < now
        THEN checked.code = 400 /\ checked.message = "Start time cannot be in the past"
        ELSE IF req.resourceId \notin resources
        THEN checked.code = 404 /\ checked.message = "Resource not found"
        ELSE checked.code \in {0, 409}

\* C10 witness: a request was refused for its start in the past while an
\* approved allocation covers that past instant.
PastStartRefused ==
    /\ response.message = "Start time cannot be in the past"
    /\ now > 0
    /\ \E a \in allocations : Approved(a) /\ a.startTime < now

\* The resource is held now by an approved allocation.
HeldNow(rid) ==
    {a \in allocations :
        a.resourceId = rid /\ Approved(a) /\ a.startTime <= now /\ now <= a.endTime}

\* The report of GET /api/resources follows the rule of the design.
ReportFollowsApproved ==
    \A r \in DOMAIN response.data :
        /\ response.data[r].status = "Allocated" <=> HeldNow(r) # {}
        /\ response.data[r].status = "Available" <=> HeldNow(r) = {}
        /\ response.data[r].status = "Allocated"
              => response.data[r].currentAllocation \in {a.id : a \in HeldNow(r)}

\* C11: a resource is reported 'Allocated' iff an approved allocation of it
\* has startTime <= now <= endTime, and 'Available' otherwise; the reported
\* current occupant is such an approved allocation.
AllocatedIffApprovedNow ==
    [][((getAllResources \/ getResourceById) /\ response'.code = 200)
          => ReportFollowsApproved']_vars

\* The labels of the design for allocation a at instant t.
IsUpcoming(a, t) == t < a.startTime
IsActive(a, t) == a.startTime <= t /\ t <= a.endTime
IsCompleted(a, t) == t > a.endTime

\* The time status is a total, exclusive function of (allocation, instant).
TimeStatusIsTotal ==
    \A a \in allocations, t \in Instants :
        /\ TimeStatus(a, t) \in {"Upcoming", "Active", "Completed"}
        /\ TimeStatus(a, t) = "Upcoming" <=> IsUpcoming(a, t)
        /\ TimeStatus(a, t) = "Active" <=> IsActive(a, t)
        /\ TimeStatus(a, t) = "Completed" <=> IsCompleted(a, t)
        /\ Cardinality({l \in {"Upcoming", "Active", "Completed"} :
                          \/ l = "Upcoming" /\ IsUpcoming(a, t)
                          \/ l = "Active" /\ IsActive(a, t)
                          \/ l = "Completed" /\ IsCompleted(a, t)}) = 1
        /\ \A s \in StatusInputs :
              TimeStatus([a EXCEPT !.approvalStatus = s], t) = TimeStatus(a, t)

\* The list of GET /api/allocations labels every allocation by that rule.
ListFollowsRule ==
    /\ DOMAIN response.data = {a.id : a \in allocations}
    /\ \A a \in allocations :
          LET label == response.data[a.id].timeStatus IN
          /\ label = "Upcoming" <=> IsUpcoming(a, now)
          /\ label = "Active" <=> IsActive(a, now)
          /\ label = "Completed" <=> IsCompleted(a, now)

\* C12: for every allocation and every instant exactly one time status is
\* derived, Upcoming iff now < startTime, Active iff startTime <= now <=
\* endTime, Completed iff now > endTime; it does not depend on the approval
\* status, and GET /api/allocations reports it for every allocation.
TimeStatusTotalExclusive ==
    [][/\ allocations' # allocations => TimeStatusIsTotal'
       /\ getAllAllocations => ListFollowsRule']_vars

\* C12 witness: the list read now shows an allocation that ends now as Active
\* and one that ended an instant ago, not approved, as Completed.
ActiveAtItsEnd ==
    /\ response.op = "getAllAllocations"
    /\ \E a, b \in allocations :
          /\ a.endTime = now
          /\ response.data[a.id].timeStatus = "Active"
          /\ b.endTime + 1 = now
          /\ b.approvalStatus # "approved"
          /\ response.data[b.id].timeStatus = "Completed"

\* The caller is an existing, active Super User.
ActiveAdmin(caller) ==
    /\ caller \in DOMAIN users
    /\ users[caller].role = "Super User"
    /\ users[caller].status = "active"

\* Every allocation is still stored, with the approval status it had.
AllocationsKept ==
    \A a \in allocations :
        \E b \in allocations' : b.id = a.id /\ b.approvalStatus = a.approvalStatus

\* A request to the user routes or the allocation routes with caller's token.
RequestBy(caller) ==
    \/ PostUserBy(caller)
    \/ PutUserStatusBy(caller)
    \/ PutUserPasswordBy(caller)
    \/ DeleteUserBy(caller)
    \/ PutStatusBy(caller)
    \/ DeleteAllocationBy(caller)
    \/ BookSlotBy(caller)

\* C13: a request of a caller that is not an active Super User (or that has
\* no valid token) changes no allocation's approval status, deletes no
\* allocation, and creates, blocks, unblocks, resets or deletes no user.
OnlyAdminsDecide ==
    [][(users' # users \/ ~AllocationsKept)
          => ~\E caller \in AllCallers : ~ActiveAdmin(caller) /\ RequestBy(caller)]_vars

\* C13 witness: adminOnly turned a request away while a pending request
\* waits and the created account is a standard user.
StandardUserTurnedAway ==
    /\ response.op = "adminOnly"
    /\ response.code = 403
    /\ \E a \in allocations : a.approvalStatus = "pending"
    /\ NewUserId \in DOMAIN users
    /\ users[NewUserId].role = "User"
    /\ users[NewUserId].status = "active"

\* C14: a POST /api/resources request that carries no valid token or comes
\* from a caller who is not an admin adds no resource.
OnlyAdminsCreateResources ==
    [][resources' # resources
          => ~\E caller \in AllCallers : ~ActiveAdmin(caller) /\ PostResourceBy(caller)]_vars

\* C15: every conflict error (409), of createAllocation and of
\* updateAllocationStatus alike, carries the non-empty list of the approved
\* allocations that collide.
ConflictErrorCarriesList ==
    response.code = 409
        => /\ response.conflicts # {}
           /\ response.conflicts \subseteq {a.id : a \in {b \in allocations : Approved(b)}}

\* Rejecting allocation doc succeeds and stores it as rejected, the other
\* allocations staying as they are.
RejectSucceeds(doc) ==
    /\ response'.code = 200
    /\ allocations' = (allocations \ {doc}) \cup {[doc EXCEPT !.approvalStatus = "rejected"]}

\* A rejected allocation is in no conflict set and blocks no creation and no
\* approval: the handlers answer as they would without it.
RejectedNeverBlocks ==
    \A a \in {b \in allocations : b.approvalStatus = "rejected"} :
        /\ \A req \in ValidRequests :
              /\ a.id \notin CheckCreate(allocations, req, now).conflicts
              /\ CheckCreate(allocations, req, now) = CheckCreate(allocations \ {a}, req, now)
        /\ \A doc \in allocations \ {a} :
              CheckUpdate(allocations, doc.id, "approved")
                  = CheckUpdate(allocations \ {a}, doc.id, "approved")

\* An allocation that is rejected is not approved after the step.
RejectedStaysOut ==
    \A a \in allocations : \A b \in allocations' :
        (a.id = b.id /\ a.approvalStatus = "rejected") => ~Approved(b)

\* C16: rejecting an existing allocation always succeeds and stores it as
\* rejected whatever other allocations exist; from then on the allocation is
\* in no conflict set and blocks no creation or approval.
RejectedForGood ==
    [][/\ response'.op = "updateAllocationStatus"
          => \A doc \in allocations :
                updateAllocationStatus(doc.id, "rejected") => RejectSucceeds(doc)
       /\ allocations' # allocations => RejectedNeverBlocks' /\ RejectedStaysOut]_vars

\* PUT /api/users/:id/status with an id of the caller's own account.
SelfStatusBy(caller) ==
    /\ IF AdminGate(caller) # 0
       THEN /\ response' = Denied(caller)
            /\ UNCHANGED users
       ELSE \E id \in UserTargets, status \in {"active", "blocked", "paused"} :
                CastObjectId(id) = caller /\ updateUserStatus(caller, id, status)
    /\ UNCHANGED <<resources, allocations, nextId, now, inflight, client>>

\* DELETE /api/users/:id with an id of the caller's own account.
SelfDeleteBy(caller) ==
    /\ IF AdminGate(caller) # 0
       THEN /\ response' = Denied(caller)
            /\ UNCHANGED users
       ELSE \E id \in UserTargets : CastObjectId(id) = caller /\ deleteUser(caller, id)
    /\ UNCHANGED <<resources, allocations, nextId, now, inflight, client>>

\* C17: an admin's request to block, unblock or delete their own account is
\* answered with an error and leaves the admin's record as it was.
SelfTargetRefused ==
    [][response'.op \in {"updateUserStatus", "deleteUser"}
          => \A caller \in AllCallers :
                (ActiveAdmin(caller) /\ (SelfStatusBy(caller) \/ SelfDeleteBy(caller)))
                    => /\ response'.code = 400
                       /\ caller \in DOMAIN users'
                       /\ users'[caller] = users[caller]]_vars

\* GET /api/resources labels resource r 'Available'.
LabelledAvailable(r) ==
    \A found \in ActiveChoices(allocations, r, now) :
        ResourceView(found).status = "Available"

\* The counts of the dashboard are those of the per-entity statuses.
DashboardFollowsRules ==
    LET stats == response.data IN
    /\ stats.availableResources = Cardinality({r \in resources : LabelledAvailable(r)})
    /\ stats.activeAllocations =
          Cardinality({a \in allocations : TimeStatus(a, now) = "Active"})
    /\ stats.upcomingAllocations =
          Cardinality({a \in allocations : TimeStatus(a, now) = "Upcoming"})
    /\ stats.totalResources = Cardinality(resources)
    /\ 0 <= stats.availableResources
    /\ stats.availableResources <= stats.totalResources

\* C18: at any instant and for any store the dashboard's availableResources is
\* the number of resources GET /api/resources labels 'Available', its
\* activeAllocations and upcomingAllocations are the numbers of allocations
\* with time status Active and Upcoming, and 0 <= availableResources <=
\* totalResources.
DashboardMatchesViews ==
    [][getDashboardStats => DashboardFollowsRules']_vars

\* C18 witness: the dashboard read at instant 0 counts one active and one
\* upcoming allocation and one resource taken.
DashboardCountsBoth ==
    /\ response.op = "getDashboardStats"
    /\ now = 0
    /\ response.data.activeAllocations = 1
    /\ response.data.upcomingAllocations = 1
    /\ response.data.availableResources = 1

\* C19: a pending allocation whose startTime has passed (even one whose
\* endTime has passed) is approved by updateAllocationStatus when no other
\* approved allocation of its resource overlaps it.
LateApprovalAllowed ==
    [][response'.op = "updateAllocationStatus"
          => \A doc \in allocations :
                (/\ doc.approvalStatus = "pending"
                 /\ doc.startTime < now
                 /\ ~Blocked(doc)
                 /\ updateAllocationStatus(doc.id, "approved"))
                    => /\ response'.code = 200
                       /\ [doc EXCEPT !.approvalStatus = "approved"] \in allocations']_vars

\* C19 witness: a request was approved after its endTime.
ApprovedAfterItsEnd ==
    /\ response.op = "updateAllocationStatus"
    /\ response.code = 200
    /\ response.message = "approved"
    /\ \E doc \in allocations :
          doc.id = response.id /\ Approved(doc) /\ doc.endTime < now

\* After allocation doc is gone, a booking or an approval that overlapped no
\* approved allocation but doc is not refused with a conflict.
IntervalFreed(doc) ==
    /\ \A req \in ValidRequests :
          ConflictSet(req) \subseteq {doc} => CheckCreate(allocations', req, now).code = 0
    /\ \A other \in allocations \ {doc} :
          (\A c \in allocations \ {doc} : ~(c.id # other.id /\ c.resourceId = other.resourceId
                                             /\ Approved(c)
                                             /\ Overlap(c.startTime, c.endTime,
                                                        other.startTime, other.endTime)))
              => CheckUpdate(allocations', other.id, "approved").code = 0

\* C20: deleteAllocation succeeds on an existing allocation whatever its
\* approval status and removes exactly that allocation; afterwards its
\* interval is free for a booking or an approval that overlapped only it.
DeleteFreesInterval ==
    [][response'.op = "deleteAllocation"
          => \A doc \in allocations :
                deleteAllocation(doc.id)
                    => /\ response'.code = 200
                       /\ allocations' = allocations \ {doc}
                       /\ IntervalFreed(doc)]_vars

\* C20 witness: an allocation was deleted and another allocation of the same
\* resource, a pending one that no approved allocation blocks any more, is
\* still stored.
DeletedOneOfTwo ==
    /\ response.op = "deleteAllocation"
    /\ response.code = 200
    /\ \A a \in allocations : a.id # response.id
    /\ \E b \in allocations :
          /\ b.resourceId = "r1"
          /\ b.approvalStatus = "pending"
          /\ CheckUpdate(allocations, b.id, "approved").code = 0

\* The header carries a Bearer token that verifies, of an existing user who
\* is not blocked.
Admitted(header) ==
    /\ header.scheme = "Bearer"
    /\ \E u \in DOMAIN users :
          header.token = TokenOf(u) /\ users[u].status # "blocked"

\* The header carries a Bearer token that verifies, of a blocked user.
BlockedBearer(header) ==
    /\ header.scheme = "Bearer"
    /\ \E u \in DOMAIN users :
          header.token = TokenOf(u) /\ users[u].status = "blocked"

\* C21: protect gives every request exactly one outcome: next() iff the
\* header carries a Bearer token that verifies, of an existing user who is
\* not blocked; otherwise exactly one response, 403 for a blocked user and
\* 401 in every other case, and no next().
ProtectOneOutcome ==
    /\ \A header \in Headers :
          LET run == ProtectRun(header) IN
          /\ Len(run.sent) + run.next = 1
          /\ run.next = 1 <=> Admitted(header)
          /\ run.sent = <<403>> <=> BlockedBearer(header)
          /\ run.sent = <<401>> <=> ~Admitted(header) /\ ~BlockedBearer(header)
    /\ \A caller \in AllCallers :
          LET run == ProtectRun(HeaderOf(caller)) IN
          IF Protect(caller) = 0 THEN run = Ran(<<>>, 1)
          ELSE run = Ran(<<Protect(caller)>>, 0)

\* C21 witness: protect turned a request away with 403 while the created
\* account is blocked and the seeded standard user is deleted.
BlockedTurnedAway ==
    /\ response.op = "protect"
    /\ response.code = 403
    /\ NewUserId \in DOMAIN users
    /\ users[NewUserId].status = "blocked"
    /\ "frank" \notin DOMAIN users

\* The account of id u is blocked, or there is no such account (any more).
BlockedOrGone(u) == u \notin DOMAIN users \/ users[u].status = "blocked"

\* C22: after a user is blocked or deleted, and until the user is active
\* again, protect lets no request with a token issued to that user through
\* (403 when blocked, 401 when deleted) and no login issues a token for
\* that user: access is decided by the stored account, not by the token.
BlockedOrGoneLockedOut ==
    \A u \in AllCallers \ {"notoken"} :
        BlockedOrGone(u)
            => /\ ProtectRun(HeaderOf(u)) =
                     Ran(<<IF u \in DOMAIN users THEN 403 ELSE 401>>, 0)
               /\ Protect(u) # 0
               /\ \A req \in LoginRequests :
                     /\ LoginCheck(req).data # TokenOf(u)
                     /\ (u \in DOMAIN users /\ ToLowerCase(req.email) = users[u].email)
                           => LoginCheck(req).code # 200

\* C22 witness: the standard user, whose password is the seeded one, was
\* just blocked by an admin.
UserJustBlocked ==
    /\ response.op = "updateUserStatus"
    /\ response.code = 200
    /\ response.message = "blocked"
    /\ "frank" \in DOMAIN users
    /\ users["frank"].status = "blocked"
    /\ MatchPassword(users["frank"], "seeded")

\* The place of a time status on the way Upcoming -> Active -> Completed.
Stage(label) ==
    CASE label = "Upcoming" -> 1
      [] label = "Active" -> 2
      [] label = "Completed" -> 3

\* C23: while the clock advances and the store is not modified, the time
\* status of every allocation only moves forward along Upcoming -> Active ->
\* Completed, and at every instant it is the one the clock and the stored
\* startTime and endTime give.
TimeStatusMovesForward ==
    [][(now' > now /\ allocations' = allocations)
          => \A a \in allocations :
                /\ Stage(TimeStatus(a, now)) <= Stage(TimeStatus(a, now'))
                /\ TimeStatus(a, now') = "Upcoming" <=> now' < a.startTime
                /\ TimeStatus(a, now') = "Completed" <=> now' > a.endTime
                /\ \A t \in Instants :
                      t >= now' => Stage(TimeStatus(a, now')) <= Stage(TimeStatus(a, t))]_vars

\* C23 witness: time has passed the end of one allocation while another is
\* still to begin or under way.
OneCompletedOneNot ==
    /\ response = NoResponse
    /\ \E a, b \in allocations :
          /\ TimeStatus(a, now) = "Completed"
          /\ now = a.endTime + 1
          /\ TimeStatus(b, now) # "Completed"

\* C24: an allocation whose approval status is approved or rejected never
\* becomes pending again, and updateAllocationStatus answers a status other
\* than 'approved' or 'rejected' with 400 before it loads anything.
NeverPendingAgain ==
    [][/\ allocations' # allocations
          => \A a \in allocations : \A b \in allocations' :
                (a.id = b.id /\ a.approvalStatus # "pending")
                    => b.approvalStatus # "pending"
       /\ response'.op = "updateAllocationStatus"
          => \A id \in AllocIds, status \in StatusInputs \ {"approved", "rejected"} :
                /\ CheckUpdate(allocations, id, status).code = 400
                /\ updateAllocationStatus(id, status) => allocations' = allocations]_vars

\* C24 witness: a status outside approved/rejected was refused while a decided
\* allocation is in the store.
OtherStatusRefused ==
    /\ response.op = "updateAllocationStatus"
    /\ response.code = 400
    /\ response.message = "Status must be"
    /\ \E a \in allocations : a.approvalStatus # "pending"

\* The allocations that a step leaves approved and that were not approved
\* before it: created approved, or turned approved.
NewlyApproved ==
    {b \in allocations' : Approved(b) /\ b \notin allocations}

\* The step is a successful updateAllocationStatus(approved) of an active
\* Super User on the stored document of b, whose conflict query found no
\* overlapping approved allocation.
ApprovedByAdminUpdate(b) ==
    /\ \E a \in allocations :
          /\ a.id = b.id
          /\ ~Approved(a)
          /\ ApproveConflicts(allocations, a) = {}
          /\ CheckUpdate(allocations, a.id, "approved").code = 0
    /\ response' = Reply("updateAllocationStatus", 200, "approved", b.id, {})
    /\ \E caller \in AllCallers : ActiveAdmin(caller) /\ PutStatusBy(caller)

\* The step is a createAllocation of an active Super User that stored b.
CreatedByAdmin(b) ==
    /\ \A a \in allocations : a.id # b.id
    /\ response'.op = "createAllocation"
    /\ response'.code = 201
    /\ \E caller \in AllCallers : ActiveAdmin(caller) /\ BookSlotBy(caller)

\* C25: an allocation becomes approved only in a createAllocation of an active
\* Super User or in a successful updateAllocationStatus(approved) of an active
\* Super User whose check found no overlapping approved allocation; what a
\* caller who is not an active Super User creates is stored pending, and no
\* request of such a caller leaves an allocation approved that was not.
ApprovedOnlyByAdminUpdate ==
    [][allocations' # allocations
          => /\ \A b \in NewlyApproved : CreatedByAdmin(b) \/ ApprovedByAdminUpdate(b)
             /\ \A caller \in AllCallers :
                   (~ActiveAdmin(caller) /\ (BookSlotBy(caller) \/ PutStatusBy(caller)))
                       => /\ NewlyApproved = {}
                          /\ \A b \in allocations' \ allocations :
                                b.approvalStatus = "pending"]_vars

\* C25 witness: an admin's updateAllocationStatus(approved) has just approved
\* an allocation next to a rejected one for the same interval.
ApprovedThroughUpdate ==
    /\ response = Reply("updateAllocationStatus", 200, "approved", response.id, {})
    /\ \E b \in allocations : b.id = response.id /\ Approved(b)
    /\ \E c \in allocations : c.id # response.id /\ c.approvalStatus = "rejected"

\* The accounts that are active Super Users.
ActiveAdmins == {u \in DOMAIN users : ActiveAdmin(u)}

\* C26: after any sequence of user-management requests that run one at a
\* time, each behind protect and adminOnly, at least one active Super User
\* account remains.
AnAdminRemains == ActiveAdmins # {}

\* C27: when user-management requests of admins run concurrently, each
\* behind protect and adminOnly and each naming another admin's account, at
\* least one active Super User account remains.
AnAdminRemainsConcurrently == Cardinality(ActiveAdmins) >= 1

\* The login requests whose password matches no stored one.
WrongPasswordLogins == {req \in LoginRequests : req.email # "" /\ req.password = "wrong"}

\* The login request names an existing account that is not blocked, with that
\* account's password.
GoodLogin(req) ==
    \E u \in DOMAIN users :
        /\ users[u].email = ToLowerCase(req.email)
        /\ users[u].status # "blocked"
        /\ req.password # ""
        /\ MatchPassword(users[u], req.password)

\* C28: login issues a token iff the email is that of an existing account
\* that is not blocked and the password matches, and a login with a wrong
\* password gets one and the same response (status and message) whether the
\* email is unknown, that of an active account or that of a blocked account.
LoginRevealsNothing ==
    /\ \A req \in LoginRequests :
          /\ LoginCheck(req).code = 200 <=> GoodLogin(req)
          /\ LoginCheck(req).data # NoToken <=> LoginCheck(req).code = 200
    /\ \A req1, req2 \in WrongPasswordLogins :
          /\ LoginCheck(req1).code = LoginCheck(req2).code
          /\ LoginCheck(req1).message = LoginCheck(req2).message

\* C29: a successful login is not undone by the initial auth check: the
\* login leaves the user set and the new token in storage, and when the check
\* of the stale token the app started with completes after it, the logged-in
\* user and the stored token are as the login left them.
LoginSurvivesAuthCheck ==
    [][/\ (client.login = "replied" /\ client'.login = "none" /\ client.reply.code = 200)
          => /\ client'.user = Decoded(client.reply.data)
             /\ client'.storage = client.reply.data
       /\ (client.check = "replied" /\ client'.check = "done" /\ ~client.ok
              /\ client.user # "")
          => /\ client'.user = client.user
             /\ client'.storage = client.storage
             /\ client'.storage # NoToken]_vars

====
